---- MODULE Spec2Model ----
(***************************************************************************)
(* Model of the sandboxed Python execution service                         *)
(* (src/infrastructure/python-execution-service/app.py).                   *)
(*                                                                         *)
(* The service is a Flask application: every inbound request is handled    *)
(* by its own worker thread, and the handlers share the module-level       *)
(* dictionary `sessions` and the filesystem.  The code takes no lock, so   *)
(* a handler is modelled as a sequence of steps, one per access to the     *)
(* shared dictionary or to the filesystem; purely local computation is     *)
(* folded into the step that precedes it.                                  *)
(*                                                                         *)
(* Idealisations, stated once:                                             *)
(*  - tempfile.mkdtemp returns a directory that never existed before; a    *)
(*    directory is named by its prefix ("session" or "exec") and the       *)
(*    number of the request creating it (a request creates at most one).   *)
(*  - datetime.utcnow() reads a clock that advances with every request     *)
(*    received.                                                            *)
(*  - uuid4().hex[:8] script names and uuid4 session ids are fresh.        *)
(*  - shutil.rmtree(..., ignore_errors=True) removes the tree when it      *)
(*    exists and does nothing when it does not.                            *)
(*  - a text is a sequence of runs [tag, w, n]: n characters whose UTF-8   *)
(*    encoding has w bytes each, so that texts of several MiB are          *)
(*    handled with the real byte cap.                                      *)
(*  - timeout_sec is kept in milliseconds (the code divides by 1000.0).    *)
(***************************************************************************)
EXTENDS Integers, Sequences, FiniteSets, TLC

\* ------------------------------------------------------------------------
\* Bounds of the model
\* ------------------------------------------------------------------------
Procs == {"w1", "w2"}          \* worker threads handling requests
SessionIds == {"a", "b"}       \* session ids callers may name
MaxReqs == 3                   \* requests received in one behaviour

None == "None"                 \* Python's None, for strings
NoDir == <<>>                  \* Python's None, for a directory (work_dir=None)

\* ------------------------------------------------------------------------
\* Configuration (app.py:30-79)
\* ------------------------------------------------------------------------
MAX_OUTPUT_BYTES == 2 * 1024 * 1024
MAX_TIMEOUT_SEC == 120
DEFAULT_RUN_TIMEOUT == 30000
TIMEOUT_EXIT_CODE == 124

BLOCKED_MODULES ==
    {"subprocess", "multiprocessing", "ctypes", "cffi", "pty",
     "signal", "resource", "mmap", "sysconfig", "distutils",
     "socket", "ssl", "asyncio", "shutil",
     "code", "codeop", "compileall", "py_compile",
     "builtins", "importlib"}

\* BLOCKED_PATTERNS is an ordered list of 14 regular expressions; a code
\* text is described by the set of indices of the patterns that match it.
BLOCKED_PATTERNS == 1..14

\* ------------------------------------------------------------------------
\* Texts: run-length encoded strings
\* ------------------------------------------------------------------------
Run(tag, w, n) == [tag |-> tag, w |-> w, n |-> n]

RECURSIVE ByteLen(_)
\* len(s.encode()): the number of bytes of the UTF-8 encoding of s
ByteLen(s) ==
    IF s = <<>> THEN 0 ELSE Head(s).w * Head(s).n + ByteLen(Tail(s))

RECURSIVE CharsTagged(_, _)
\* number of characters of s that carry the given tag
CharsTagged(s, tag) ==
    IF s = <<>> THEN 0
    ELSE (IF Head(s).tag = tag THEN Head(s).n ELSE 0) + CharsTagged(Tail(s), tag)

\* drop runs of zero characters, so that equal texts are equal sequences
RECURSIVE Norm(_)
Norm(s) ==
    IF s = <<>> THEN <<>>
    ELSE IF Head(s).n = 0 THEN Norm(Tail(s))
    ELSE <<Head(s)>> \o Norm(Tail(s))

RECURSIVE TruncDecode(_, _)
\* s.encode()[:cap].decode(errors='replace'): the characters that fit
\* whole in the first cap bytes; a character cut by the slice leaves an
\* incomplete byte sequence, which the decoder replaces by one U+FFFD
\* (3 bytes in UTF-8).
TruncDecode(s, cap) ==
    IF s = <<>> \/ cap <= 0 THEN <<>>
    ELSE LET r == Head(s) IN
         IF r.w * r.n <= cap
         THEN <<r>> \o TruncDecode(Tail(s), cap - r.w * r.n)
         ELSE Norm(<<Run(r.tag, r.w, cap \div r.w)>>) \o
              (IF cap % r.w > 0 THEN <<Run("replacement", 3, 1)>> ELSE <<>>)

\* "\n\n⚠️ [TRUNCATED] Output exceeded 2 MB limit." (app.py:200)
TRUNCATION_MARKER ==
    <<Run("trunc_marker", 1, 2), Run("trunc_marker", 3, 2), Run("trunc_marker", 1, 40)>>

\* number of decimal digits of a natural number
RECURSIVE Digits(_)
Digits(n) == IF n < 10 THEN 1 ELSE 1 + Digits(n \div 10)

Abs(n) == IF n < 0 THEN -n ELSE n

\* len(f"{timeout_sec}") for timeout_sec = min(ms / 1000.0, MAX_TIMEOUT_SEC):
\* the int 120 when the request exceeds the ceiling, else the repr of the
\* float ms / 1000.0 (shortest decimal, at least one fractional digit).
TimeoutStrLen(ms) ==
    IF ms > MAX_TIMEOUT_SEC * 1000 THEN Digits(MAX_TIMEOUT_SEC)
    ELSE LET frac == Abs(ms) % 1000 IN
         (IF ms < 0 THEN 1 ELSE 0) + Digits(Abs(ms) \div 1000) + 1 +
         (IF frac % 100 = 0 THEN 1 ELSE IF frac % 10 = 0 THEN 2 ELSE 3)

\* f"\n⏱️ Execution timed out after {timeout_sec}s" (app.py:194)
TimeoutMarker(ms) ==
    <<Run("timeout_marker", 1, 1), Run("timeout_marker", 3, 2),
      Run("timeout_marker", 1, 27 + TimeoutStrLen(ms) + 1)>>

\* ------------------------------------------------------------------------
\* Code texts and the security check (app.py:82-112)
\* ------------------------------------------------------------------------
\* A code text is described by what security_check reads of it: whether
\* it is empty, whether ast.parse accepts it, the import statements the
\* text holds (form and dotted module name; in ast.walk order when it
\* parses), and the indices of the BLOCKED_PATTERNS that match the raw
\* text.  When ast.parse does not accept the text it raises SyntaxError
\* (fault = None), or another exception named by fault: RecursionError
\* or MemoryError for deeply nested code, UnicodeEncodeError for a text
\* with a lone surrogate.
Code(chars, parses, imports, patterns) ==
    [chars |-> chars, parses |-> parses, imports |-> imports, patterns |-> patterns,
     fault |-> None]
Import(form, module) == [form |-> form, module |-> module]

\* the code text on which ast.parse raises exc, no SyntaxError
Faulty(code, exc) == [code EXCEPT !.parses = FALSE, !.fault = exc]

EmptyText == Code(0, TRUE, <<>>, {})

Reason(kind, module, pattern) == [kind |-> kind, module |-> module, pattern |-> pattern]
NoReason == Reason("", <<>>, 0)

\* variant of TopModule that takes the dotted name as a whole
TopModule_Whole(module) == IF Len(module) = 1 THEN Head(module) ELSE ""

\* alias.name.split('.')[0] / (node.module or '').split('.')[0]
TopModule(module) == IF module = <<>> THEN "" ELSE Head(module)

\* index of the first blocklisted import of the walk, 0 when there is none
FirstBlockedImport(imports) ==
    LET hits == {i \in 1..Len(imports) : TopModule(imports[i].module) \in BLOCKED_MODULES}
    IN  IF hits = {} THEN 0 ELSE CHOOSE i \in hits : \A j \in hits : i <= j

\* index of the first pattern of the list that matches, 0 when none does
FirstPattern(patterns) ==
    IF patterns = {} THEN 0 ELSE CHOOSE i \in patterns : \A j \in patterns : i <= j

\* variant of security_check that leaves the pattern pass out when the
\* import pass could not parse the text
security_check_NoPatternOnSyntaxError(code) ==
    LET i == IF code.parses THEN FirstBlockedImport(code.imports) ELSE 0
        k == IF code.parses THEN FirstPattern(code.patterns) ELSE 0
    IN  IF code.fault # None THEN <<FALSE, NoReason, code.fault>>
        ELSE IF i > 0
        THEN <<FALSE, Reason(code.imports[i].form, code.imports[i].module, 0), None>>
        ELSE IF k > 0 THEN <<FALSE, Reason("pattern", <<>>, k), None>>
        ELSE <<TRUE, NoReason, None>>

\* variant of security_check that runs the pattern pass before the import
\* pass
security_check_PatternsFirst(code) ==
    LET i == IF code.parses THEN FirstBlockedImport(code.imports) ELSE 0
        k == FirstPattern(code.patterns)
    IN  IF code.fault # None THEN <<FALSE, NoReason, code.fault>>
        ELSE IF k > 0 THEN <<FALSE, Reason("pattern", <<>>, k), None>>
        ELSE IF i > 0
        THEN <<FALSE, Reason(code.imports[i].form, code.imports[i].module, 0), None>>
        ELSE <<TRUE, NoReason, None>>

\* security_check(code) -> (is_safe, reason), and as third component the
\* exception that leaves the function instead (None when it returns):
\* only SyntaxError is caught around ast.parse
security_check(code) ==
    LET i == IF code.parses THEN FirstBlockedImport(code.imports) ELSE 0
        k == FirstPattern(code.patterns)
    IN  IF code.fault # None THEN <<FALSE, NoReason, code.fault>>
        ELSE IF i > 0
        THEN <<FALSE, Reason(code.imports[i].form, code.imports[i].module, 0), None>>
        ELSE IF k > 0 THEN <<FALSE, Reason("pattern", <<>>, k), None>>
        ELSE <<TRUE, NoReason, None>>

\* ------------------------------------------------------------------------
\* State
\* ------------------------------------------------------------------------
VARIABLES
    sessions,   \* the dict `sessions`: session id -> record
    dirs,       \* directories that exist on disk
    files,      \* files that exist on disk, as <<directory, name>>
    nreq,       \* number of requests received so far
    pc,         \* per worker: the place its handler has reached
    frame,      \* per worker: the request and the handler's local variables
    resp,       \* per worker: the response of its last completed request
    used,       \* per session id: the directories executions carrying the
                \* id were run in since the id was last destroyed (history)
    execs,      \* per session id: the number of executions dispatched with
                \* the id since the id was last destroyed (history)
    procs       \* the processes started by executed code that are running
                \* and are no child of the service: [rid, holds]

vars == <<sessions, dirs, files, nreq, pc, frame, resp, used, execs, procs>>

Session(work_dir, created_at, cell_count) ==
    [work_dir |-> work_dir, created_at |-> created_at, cell_count |-> cell_count]

\* sessions[sid] = s
DictSet(sid, s) == [x \in DOMAIN sessions \cup {sid} |-> IF x = sid THEN s ELSE sessions[x]]

\* del sessions[sid]
DictDel(sid) == [x \in DOMAIN sessions \ {sid} |-> sessions[x]]

\* variant of MkDTemp that hands out one directory per prefix
MkDTemp_Shared(prefix, rid) == <<prefix, 0>>

\* tempfile.mkdtemp(prefix=...) in the handler of request rid
MkDTemp(prefix, rid) == <<prefix, rid>>

\* values of the run_timeout field: absent, a number of milliseconds, or
\* a JSON value that is no number (a string, null)
Absent == [given |-> FALSE, number |-> TRUE, ms |-> 0]
Ms(n) == [given |-> TRUE, number |-> TRUE, ms |-> n]
NotANumber == [given |-> TRUE, number |-> FALSE, ms |-> 0]

\* A request body is the record of the fields the handler reads.  json
\* says whether request.get_json() yields a non-empty payload; files
\* stands for files[0].get('content', '') and code for
\* data.get('code', ''), both the empty text when absent; session_id is
\* None when absent.
Body(first_file, code, run_timeout, session_id) ==
    [json |-> TRUE, files |-> first_file, code |-> code, run_timeout |-> run_timeout,
     session_id |-> session_id]

NoData == [json |-> FALSE, files |-> EmptyText, code |-> EmptyText,
           run_timeout |-> Absent, session_id |-> None]

NoOutcome ==
    [timed_out |-> FALSE, stdout |-> <<>>, stderr |-> <<>>, returncode |-> 0,
     writes |-> FALSE, desc |-> "none"]
NoResult == [stdout |-> <<>>, stderr |-> <<>>, exit_code |-> 0]

IdleFrame ==
    [kind |-> "idle", rid |-> 0, data |-> NoData, session_id |-> None, code |-> EmptyText,
     run_timeout |-> Absent, timeout_ms |-> 0, timeout_sec |-> 0,
     session |-> NoDir, work_dir |-> NoDir,
     own_dir |-> FALSE, stateless |-> TRUE, script_path |-> <<>>,
     outcome |-> NoOutcome, result |-> NoResult, exc |-> None,
     seen |-> {}, size |-> 0, listed |-> {}, count |-> 0, stale |-> FALSE,
     destroyed |-> FALSE, lazy |-> FALSE, before |-> {}]

\* ------------------------------------------------------------------------
\* Responses (app.py:261-284, 314, 324, 337-347, 371-393)
\* ------------------------------------------------------------------------
\* every response is a record of the same shape; a route fills its fields.
\* request is history: the body of the /execute request that is answered.
Resp(status, route) ==
    [status |-> status, route |-> route, request |-> NoData,
     error |-> "", blocked |-> FALSE,
     reason |-> NoReason, stdout |-> <<>>, stderr |-> <<>>, code |-> 0,
     session_id |-> None, created_at |-> 0, sessions |-> {}, count |-> 0]

NoResp == Resp(0, "")

Init ==
    /\ sessions = <<>>
    /\ dirs = {}
    /\ files = {}
    /\ nreq = 0
    /\ pc = [p \in Procs |-> "idle"]
    /\ frame = [p \in Procs |-> IdleFrame]
    /\ resp = [p \in Procs |-> NoResp]
    /\ used = [sid \in SessionIds |-> {}]
    /\ execs = [sid \in SessionIds |-> 0]
    /\ procs = {}

ErrorResp(status, error) == [Resp(status, "execute") EXCEPT !.error = error]

\* variant of BlockedResp that reports the rejection as a transport error
BlockedResp_Forbidden(reason) ==
    [Resp(403, "execute") EXCEPT !.stderr = <<Run("blocked_msg", 1, 41)>>,
                                 !.code = 1, !.blocked = TRUE, !.reason = reason]

BlockedResp(reason) ==
    [Resp(200, "execute") EXCEPT !.stderr = <<Run("blocked_msg", 1, 41)>>,
                                 !.code = 1, !.blocked = TRUE, !.reason = reason]

RunResp(result, session_id) ==
    [Resp(200, "execute") EXCEPT !.stdout = result.stdout, !.stderr = result.stderr,
                                 !.code = result.exit_code, !.session_id = session_id]

\* the `except Exception` envelope of /execute: str(e) goes into stderr
InternalErrorResp(exc) ==
    [Resp(500, "execute") EXCEPT
        !.stderr = <<Run("internal_error", 1, 24), Run("exception_text", 1, 1)>>,
        !.code = 1, !.error = exc]

\* a handler without try/except: Flask answers an escaping exception with 500
UnhandledResp(route, exc) == [Resp(500, route) EXCEPT !.error = exc]

\* the worker finishes its request with response r
Finish(p, r) ==
    /\ pc' = [pc EXCEPT ![p] = "idle"]
    /\ frame' = [frame EXCEPT ![p] = IdleFrame]
    /\ resp' = [resp EXCEPT ![p] =
                  IF frame[p].kind = "execute"
                  THEN [r EXCEPT !.request = frame[p].data] ELSE r]

\* the worker begins a handler; its previous response has been sent
Start(p, label, f) ==
    /\ pc' = [pc EXCEPT ![p] = label]
    /\ frame' = [frame EXCEPT ![p] = f]
    /\ resp' = [resp EXCEPT ![p] = NoResp]

\* the worker moves on inside its handler
Goto(p, label, f) ==
    /\ pc' = [pc EXCEPT ![p] = label]
    /\ frame' = [frame EXCEPT ![p] = f]
    /\ UNCHANGED resp

\* An exception escapes to the handler's top: execute() catches it and
\* answers with the internal-error envelope, the other routes do not.
Raise(p, exc) ==
    Finish(p, IF frame[p].kind = "execute" THEN InternalErrorResp(exc)
              ELSE UnhandledResp(frame[p].kind, exc))

\* ------------------------------------------------------------------------
\* POST /execute: decoding, timeout clamp, screening (app.py:310-357)
\* ------------------------------------------------------------------------
\* files[0]['content'] when it is non-empty, else data.get('code', '')
ExtractCode(data) == IF data.files.chars > 0 THEN data.files ELSE data.code

\* data.get('run_timeout', 30000)
RequestedTimeout(data) ==
    IF data.run_timeout.given THEN data.run_timeout ELSE Ms(DEFAULT_RUN_TIMEOUT)

\* variant of ClampTimeout that passes the request's value through
ClampTimeout_NoCeiling(timeout_ms) == timeout_ms

\* min(timeout_ms / 1000.0, MAX_TIMEOUT_SEC), in milliseconds
ClampTimeout(timeout_ms) ==
    IF timeout_ms <= MAX_TIMEOUT_SEC * 1000 THEN timeout_ms ELSE MAX_TIMEOUT_SEC * 1000

\* `if session_id:` - None and the empty string are both false
Truthy(session_id) == session_id # None /\ session_id # ""

\* variant of Dispatch that resolves the execution context whatever the verdict
Dispatch_IgnoreVerdict(data) ==
    IF ~data.json THEN [to |-> "400", error |-> "No JSON payload provided"]
    ELSE IF ExtractCode(data).chars = 0 THEN [to |-> "400", error |-> "No code provided"]
    ELSE IF ~RequestedTimeout(data).number THEN [to |-> "500", error |-> "TypeError"]
    ELSE IF security_check(ExtractCode(data))[3] # None
    THEN [to |-> "500", error |-> security_check(ExtractCode(data))[3]]
    ELSE IF Truthy(data.session_id) THEN [to |-> "session", error |-> ""]
    ELSE [to |-> "run", error |-> ""]

\* variant of Dispatch that resolves the session of a request before it
\* looks at the verdict
Dispatch_SessionBeforeVerdict(data) ==
    IF ~data.json THEN [to |-> "400", error |-> "No JSON payload provided"]
    ELSE IF ExtractCode(data).chars = 0 THEN [to |-> "400", error |-> "No code provided"]
    ELSE IF ~RequestedTimeout(data).number THEN [to |-> "500", error |-> "TypeError"]
    ELSE IF security_check(ExtractCode(data))[3] # None
    THEN [to |-> "500", error |-> security_check(ExtractCode(data))[3]]
    ELSE IF Truthy(data.session_id) THEN [to |-> "session", error |-> ""]
    ELSE IF ~security_check(ExtractCode(data))[1] THEN [to |-> "blocked", error |-> ""]
    ELSE [to |-> "run", error |-> ""]

\* The local part of execute() up to the choice of the execution context
\* (app.py:312-357): where the handler goes next.
Dispatch(data) ==
    IF ~data.json THEN [to |-> "400", error |-> "No JSON payload provided"]
    ELSE IF ExtractCode(data).chars = 0 THEN [to |-> "400", error |-> "No code provided"]
    ELSE IF ~RequestedTimeout(data).number THEN [to |-> "500", error |-> "TypeError"]
    ELSE IF security_check(ExtractCode(data))[3] # None
    THEN [to |-> "500", error |-> security_check(ExtractCode(data))[3]]
    ELSE IF ~security_check(ExtractCode(data))[1] THEN [to |-> "blocked", error |-> ""]
    ELSE IF Truthy(data.session_id) THEN [to |-> "session", error |-> ""]
    ELSE [to |-> "run", error |-> ""]

\* ids POST /session has drawn and not yet returned: no caller knows them
CreatingIds == {frame[q].session_id : q \in {r \in Procs : frame[r].kind = "create_session"}}

\* A worker picks up a POST /execute request with body data.
RecvExecute(p, data) ==
    /\ pc[p] = "idle"
    /\ nreq < MaxReqs
    /\ data.session_id \notin CreatingIds
    /\ nreq' = nreq + 1
    /\ LET d == Dispatch(data) IN
       CASE d.to = "400" -> Finish(p, [ErrorResp(400, d.error) EXCEPT !.request = data])
         [] d.to = "500" -> Finish(p, [InternalErrorResp(d.error) EXCEPT !.request = data])
         [] d.to = "blocked" ->
              Finish(p, [BlockedResp(security_check(ExtractCode(data))[2])
                            EXCEPT !.request = data])
         [] d.to \in {"session", "run"} ->
              Start(p, IF d.to = "session" THEN "gs_check" ELSE "rc_mkdtemp",
                    [IdleFrame EXCEPT
                        !.kind = "execute", !.rid = nreq + 1, !.data = data,
                        !.code = ExtractCode(data),
                        !.run_timeout = data.run_timeout,
                        !.timeout_ms = RequestedTimeout(data).ms,
                        !.timeout_sec = ClampTimeout(RequestedTimeout(data).ms),
                        !.session_id = data.session_id,
                        !.stateless = ~Truthy(data.session_id),
                        \* history: the files executions of the session
                        \* have left when this request arrives
                        !.before = IF d.to = "session"
                                   THEN {f \in files : f[1] \in used[data.session_id]
                                                         /\ f[2][1] = "data"}
                                   ELSE {}])
    /\ UNCHANGED <<sessions, dirs, files, used, execs, procs>>

\* ------------------------------------------------------------------------
\* Session management (app.py:119-140, 256-284)
\* ------------------------------------------------------------------------
\* ids held by a request in flight
InFlightIds == {frame[q].session_id : q \in Procs}

\* POST /session: session_id = str(uuid.uuid4()), an id nobody has used
RecvCreate(p, S) ==
    /\ pc[p] = "idle"
    /\ nreq < MaxReqs
    /\ nreq' = nreq + 1
    /\ \E sid \in S \ (DOMAIN sessions \cup InFlightIds) :
          Start(p, "gs_check",
                [IdleFrame EXCEPT !.kind = "create_session", !.rid = nreq + 1,
                                  !.session_id = sid])
    /\ UNCHANGED <<sessions, dirs, files, used, execs, procs>>

\* get_or_create_session: `if session_id not in sessions`
gs_check(p) ==
    /\ pc[p] = "gs_check"
    /\ Goto(p, IF frame[p].session_id \notin DOMAIN sessions THEN "gs_mkdtemp" ELSE "gs_ret",
            \* history: the request found its id unknown to the store
            [frame[p] EXCEPT !.lazy = frame[p].session_id \notin DOMAIN sessions])
    /\ UNCHANGED <<sessions, dirs, files, nreq, used, execs, procs>>

\* work_dir = tempfile.mkdtemp(prefix=f"session_{...}_"); may fail (OSError)
gs_mkdtemp(p) ==
    /\ pc[p] = "gs_mkdtemp"
    /\ \/ /\ dirs' = dirs \cup {MkDTemp("session", frame[p].rid)}
          /\ Goto(p, "gs_store",
                  [frame[p] EXCEPT !.work_dir = MkDTemp("session", frame[p].rid)])
       \/ /\ Raise(p, "OSError")
          /\ UNCHANGED dirs
    /\ UNCHANGED <<sessions, files, nreq, used, execs, procs>>

\* sessions[session_id] = {id, work_dir, created_at: utcnow(), cell_count: 0}
gs_store(p) ==
    /\ pc[p] = "gs_store"
    /\ sessions' = DictSet(frame[p].session_id, Session(frame[p].work_dir, nreq, 0))
    /\ Goto(p, "gs_ret", [frame[p] EXCEPT !.work_dir = NoDir])
    /\ UNCHANGED <<dirs, files, nreq, used, execs, procs>>

\* `return sessions[session_id]`, then the caller's use of the record:
\* create_session answers 201; execute takes session["work_dir"].
\* A record is identified by its work_dir (every record gets its own).
gs_ret(p) ==
    /\ pc[p] = "gs_ret"
    /\ IF frame[p].session_id \notin DOMAIN sessions
       THEN Raise(p, "KeyError")
       ELSE LET s == sessions[frame[p].session_id] IN
            IF frame[p].kind = "create_session"
            THEN Finish(p, [Resp(201, "create_session") EXCEPT
                               !.session_id = frame[p].session_id,
                               !.created_at = s.created_at])
            ELSE Goto(p, "cc_read", [frame[p] EXCEPT !.session = s.work_dir,
                                                     !.work_dir = s.work_dir])
    /\ UNCHANGED <<sessions, dirs, files, nreq, used, execs, procs>>

\* the record a handler holds is still the one the store maps its id to
InStore(sid, ref) == sid \in DOMAIN sessions /\ sessions[sid].work_dir = ref

\* session["cell_count"] += 1, first half: read the counter of the record
cc_read(p) ==
    /\ pc[p] = "cc_read"
    /\ Goto(p, "cc_write",
            [frame[p] EXCEPT !.count =
                IF InStore(frame[p].session_id, frame[p].session)
                THEN sessions[frame[p].session_id].cell_count ELSE 0])
    /\ UNCHANGED <<sessions, dirs, files, nreq, used, execs, procs>>

\* second half: store the incremented value into the record (a record
\* that has left the store is garbage: the write is not observable);
\* then stateless = False and run_code is called with the session's dir
cc_write(p) ==
    /\ pc[p] = "cc_write"
    /\ sessions' =
          IF InStore(frame[p].session_id, frame[p].session)
          THEN [sessions EXCEPT ![frame[p].session_id].cell_count = frame[p].count + 1]
          ELSE sessions
    /\ Goto(p, "rc_write", [frame[p] EXCEPT !.count = 0])
    /\ used' = IF frame[p].stale THEN used
               ELSE [used EXCEPT ![frame[p].session_id] = @ \cup {frame[p].work_dir}]
    /\ execs' = IF frame[p].stale THEN execs
                ELSE [execs EXCEPT ![frame[p].session_id] = @ + 1]
    /\ UNCHANGED <<dirs, files, nreq, procs>>

\* DELETE /session/<id>
RecvDelete(p, sid) ==
    /\ pc[p] = "idle"
    /\ nreq < MaxReqs
    /\ sid \notin CreatingIds
    /\ nreq' = nreq + 1
    /\ Start(p, "cs_check",
             [IdleFrame EXCEPT !.kind = "delete_session", !.rid = nreq + 1,
                               !.session_id = sid])
    /\ UNCHANGED <<sessions, dirs, files, used, execs, procs>>

\* delete_session's answer (app.py:272)
DeletedAck(sid) == [Resp(200, "delete_session") EXCEPT !.session_id = sid]

\* cleanup_session: `if session_id in sessions`
cs_check(p) ==
    /\ pc[p] = "cs_check"
    /\ IF frame[p].session_id \notin DOMAIN sessions
       THEN Finish(p, DeletedAck(frame[p].session_id))
       ELSE Goto(p, "cs_get", frame[p])
    /\ UNCHANGED <<sessions, dirs, files, nreq, used, execs, procs>>

\* work_dir = sessions[session_id].get("work_dir")
cs_get(p) ==
    /\ pc[p] = "cs_get"
    /\ IF frame[p].session_id \notin DOMAIN sessions
       THEN Raise(p, "KeyError")
       ELSE Goto(p, "cs_exists",
                 [frame[p] EXCEPT !.work_dir = sessions[frame[p].session_id].work_dir])
    /\ UNCHANGED <<sessions, dirs, files, nreq, used, execs, procs>>

\* variant of cs_exists that never removes the directory tree
cs_exists_NoRmtree(p) ==
    /\ pc[p] = "cs_exists"
    /\ Goto(p, "cs_del", frame[p])
    /\ UNCHANGED <<sessions, dirs, files, nreq, used, execs, procs>>

\* `if work_dir and os.path.exists(work_dir)`
cs_exists(p) ==
    /\ pc[p] = "cs_exists"
    /\ Goto(p, IF frame[p].work_dir \in dirs THEN "cs_rmtree" ELSE "cs_del", frame[p])
    /\ UNCHANGED <<sessions, dirs, files, nreq, used, execs, procs>>

\* shutil.rmtree(d, ignore_errors=True): the disk without d and its files
RmTreeDirs(d) == dirs \ {d}
RmTreeFiles(d) == {x \in files : x[1] # d}

\* shutil.rmtree(work_dir, ignore_errors=True), first half: the entries
\* found in the tree are unlinked
cs_rmtree(p) ==
    /\ pc[p] = "cs_rmtree"
    /\ files' = RmTreeFiles(frame[p].work_dir)
    /\ Goto(p, "cs_rmdir", frame[p])
    /\ UNCHANGED <<sessions, dirs, nreq, used, execs, procs>>

\* shutil.rmtree(work_dir, ignore_errors=True), second half: os.rmdir of the
\* directory; it fails on a directory that got an entry since the first
\* half, and ignore_errors drops the failure
cs_rmdir(p) ==
    /\ pc[p] = "cs_rmdir"
    /\ dirs' = IF \E x \in files : x[1] = frame[p].work_dir
                THEN dirs ELSE RmTreeDirs(frame[p].work_dir)
    /\ Goto(p, "cs_del", frame[p])
    /\ UNCHANGED <<sessions, files, nreq, used, execs, procs>>

\* del sessions[session_id]; then delete_session acknowledges
cs_del(p) ==
    /\ pc[p] = "cs_del"
    /\ IF frame[p].session_id \notin DOMAIN sessions
       THEN /\ Raise(p, "KeyError")
            /\ UNCHANGED <<sessions, used, execs, procs>>
       ELSE /\ sessions' = DictDel(frame[p].session_id)
            /\ used' = [used EXCEPT ![frame[p].session_id] = {}]
            /\ execs' = [execs EXCEPT ![frame[p].session_id] = 0]
            /\ pc' = [pc EXCEPT ![p] = "idle"]
            /\ resp' = [resp EXCEPT ![p] = DeletedAck(frame[p].session_id)]
            \* history: executions of the id that are in flight began
            \* before this destroy
            /\ frame' = [q \in Procs |->
                    IF q = p THEN IdleFrame
                    ELSE IF frame[q].kind = "execute" /\
                            frame[q].session_id = frame[p].session_id
                    THEN [frame[q] EXCEPT
                            !.stale = TRUE,
                            \* history: the record this execution holds is
                            \* the one this destroy removed, tree and entry
                            !.destroyed =
                                /\ frame[q].session # NoDir
                                /\ frame[q].session = frame[p].work_dir
                                /\ sessions[frame[p].session_id].work_dir
                                     = frame[q].session]
                    ELSE frame[q]]
    /\ UNCHANGED <<dirs, files, nreq, procs>>

\* GET /sessions
RecvList(p) ==
    /\ pc[p] = "idle"
    /\ nreq < MaxReqs
    /\ nreq' = nreq + 1
    /\ Start(p, "ls_iter",
             [IdleFrame EXCEPT !.kind = "list_sessions", !.rid = nreq + 1,
                               !.size = Cardinality(DOMAIN sessions)])
    /\ UNCHANGED <<sessions, dirs, files, used, execs, procs>>

\* the entry of one session in the listing (app.py:280)
View(sid) ==
    [id |-> sid, created_at |-> sessions[sid].created_at,
     cell_count |-> sessions[sid].cell_count]

\* one round of `for s in sessions.values()`: the iterator raises
\* RuntimeError when the dict changed size since the iteration began,
\* and ends after the last entry
ls_iter(p) ==
    /\ pc[p] = "ls_iter"
    /\ IF Cardinality(DOMAIN sessions) # frame[p].size
       THEN Raise(p, "RuntimeError")
       ELSE IF DOMAIN sessions \ frame[p].seen = {}
       THEN Goto(p, "ls_len", frame[p])
       ELSE \E sid \in DOMAIN sessions \ frame[p].seen :
               Goto(p, "ls_iter",
                    [frame[p] EXCEPT !.seen = @ \cup {sid},
                                     !.listed = @ \cup {View(sid)}])
    /\ UNCHANGED <<sessions, dirs, files, nreq, used, execs, procs>>

\* "count": len(sessions), and the answer
ls_len(p) ==
    /\ pc[p] = "ls_len"
    /\ Finish(p, [Resp(200, "list_sessions") EXCEPT
                     !.sessions = frame[p].listed,
                     !.count = Cardinality(DOMAIN sessions)])
    /\ UNCHANGED <<sessions, dirs, files, nreq, used, execs, procs>>

\* ------------------------------------------------------------------------
\* Core execution: run_code (app.py:147-210)
\* ------------------------------------------------------------------------
\* What the child process does, as seen by communicate(): whether the
\* deadline passed first, the text on each pipe, and the return code.
\* writes says whether the child wrote a file of its own into its current
\* directory (cwd=work_dir); children are taken to write nowhere else and
\* to remove nothing.
Outcome(timed_out, stdout, stderr, returncode) ==
    [timed_out |-> timed_out, stdout |-> stdout, stderr |-> stderr,
     returncode |-> returncode, writes |-> FALSE, desc |-> "none"]

\* The same outcome of a child that also started a process of its own
\* (os.fork taken from `from os import fork`, os.posix_spawn: neither is
\* screened) that outlives it.  The descendant inherits the child's
\* stdout and stderr pipes: it is "holding" while it keeps them open and
\* "detached" when it has closed them.
Forking(o, desc) == [o EXCEPT !.desc = desc]

\* the descendant left by the child of request rid
Descendant(rid, desc) == [rid |-> rid, holds |-> desc = "holding"]

\* the same outcome of a child that also wrote a file
Writing(o) == [o EXCEPT !.writes = TRUE]

\* the file the child of request rid writes into its current directory
UserFile(work_dir, rid) == <<work_dir, <<"data", rid>>>>

\* app.py:198-200
CapStdout(stdout) ==
    IF ByteLen(stdout) > MAX_OUTPUT_BYTES
    THEN TruncDecode(stdout, MAX_OUTPUT_BYTES) \o TRUNCATION_MARKER
    ELSE stdout

\* app.py:201-202
CapStderr(stderr) ==
    IF ByteLen(stderr) > MAX_OUTPUT_BYTES
    THEN TruncDecode(stderr, MAX_OUTPUT_BYTES)
    ELSE stderr

\* app.py:188-195: stderr and exit code after communicate()
OnTimeout(o, timeout_ms) ==
    IF o.timed_out
    THEN [stderr |-> o.stderr \o TimeoutMarker(timeout_ms),
          exit_code |-> TIMEOUT_EXIT_CODE]
    ELSE [stderr |-> o.stderr, exit_code |-> o.returncode]

\* app.py:188-204: the dict run_code returns for a child's outcome
RunResult(o, timeout_ms) ==
    [stdout |-> CapStdout(o.stdout),
     stderr |-> CapStderr(OnTimeout(o, timeout_ms).stderr),
     exit_code |-> OnTimeout(o, timeout_ms).exit_code]

\* variant of ScriptPath with one fixed file name for every call
ScriptPath_Fixed(work_dir, rid) == <<work_dir, <<"script", 0>>>>

\* os.path.join(work_dir, f"script_{uuid.uuid4().hex[:8]}.py") in the
\* handler of request rid
ScriptPath(work_dir, rid) == <<work_dir, <<"script", rid>>>>

\* work_dir = tempfile.mkdtemp(prefix="exec_"); own_dir = True
rc_mkdtemp(p) ==
    /\ pc[p] = "rc_mkdtemp"
    /\ \/ /\ dirs' = dirs \cup {MkDTemp("exec", frame[p].rid)}
          /\ Goto(p, "rc_write",
                  [frame[p] EXCEPT !.work_dir = MkDTemp("exec", frame[p].rid),
                                   !.own_dir = TRUE])
       \/ /\ Raise(p, "OSError")
          /\ UNCHANGED dirs
    /\ UNCHANGED <<sessions, files, nreq, used, execs, procs>>

\* script_path = os.path.join(work_dir, f"script_{uuid4().hex[:8]}.py");
\* open(script_path, 'w') and f.write(code).  open fails when the
\* directory is gone or for want of resources; write may fail after the
\* file was created.
rc_write(p) ==
    /\ pc[p] = "rc_write"
    /\ LET path == ScriptPath(frame[p].work_dir, frame[p].rid)
           f == [frame[p] EXCEPT !.script_path = path]
       IN  IF frame[p].work_dir \notin dirs
           THEN /\ Goto(p, "rc_exists", [f EXCEPT !.exc = "FileNotFoundError"])
                /\ UNCHANGED files
           ELSE \/ /\ files' = files \cup {path}
                   /\ Goto(p, "rc_spawn", f)
                \/ /\ files' = files \cup {path}
                   /\ Goto(p, "rc_exists", [f EXCEPT !.exc = "OSError"])
                \/ /\ UNCHANGED files
                   /\ Goto(p, "rc_exists", [f EXCEPT !.exc = "OSError"])
    /\ UNCHANGED <<sessions, dirs, nreq, used, execs, procs>>

\* subprocess.Popen([...], cwd=work_dir, ...): fails when the directory
\* is gone or the process cannot be created
rc_spawn(p) ==
    /\ pc[p] = "rc_spawn"
    /\ IF frame[p].work_dir \notin dirs
       THEN Goto(p, "rc_exists", [frame[p] EXCEPT !.exc = "FileNotFoundError"])
       ELSE \/ Goto(p, "rc_comm", frame[p])
            \/ Goto(p, "rc_exists", [frame[p] EXCEPT !.exc = "OSError"])
    /\ UNCHANGED <<sessions, dirs, files, nreq, used, execs, procs>>

\* process.communicate(timeout=timeout_sec), the timeout branch and the
\* output caps.  A deadline that is already past always expires.
\* communicate() returns at end-of-file on both pipes: while a
\* descendant holds them open the first call runs into its deadline, and
\* after process.kill(), which signals the child alone, the second call
\* (no timeout) waits on in rc_drain.
rc_comm(p, o) ==
    /\ pc[p] = "rc_comm"
    /\ frame[p].timeout_sec < 0 => o.timed_out
    /\ o.desc = "holding" => o.timed_out
    /\ files' = IF o.writes /\ frame[p].work_dir \in dirs
                THEN files \cup {UserFile(frame[p].work_dir, frame[p].rid)}
                ELSE files
    /\ procs' = IF o.desc = "none" THEN procs
                ELSE procs \cup {Descendant(frame[p].rid, o.desc)}
    /\ Goto(p, IF o.desc = "holding" THEN "rc_drain" ELSE "rc_exists",
            [frame[p] EXCEPT !.outcome = o,
                             !.result = IF o.desc = "holding" THEN NoResult
                                        ELSE RunResult(o, frame[p].timeout_ms)])
    /\ UNCHANGED <<sessions, dirs, nreq, used, execs>>

\* `stdout, stderr = process.communicate()` after the kill (app.py:193):
\* it returns once no process holds the pipes of this call open
rc_drain(p) ==
    /\ pc[p] = "rc_drain"
    /\ Descendant(frame[p].rid, "holding") \notin procs
    /\ Goto(p, "rc_exists",
            [frame[p] EXCEPT !.result = RunResult(frame[p].outcome, frame[p].timeout_ms)])
    /\ UNCHANGED <<sessions, dirs, files, nreq, used, execs, procs>>

\* a descendant ends of its own accord; nothing in the service makes it
ProcExit(d) ==
    /\ d \in procs
    /\ procs' = procs \ {d}
    /\ UNCHANGED <<sessions, dirs, files, nreq, pc, frame, resp, used, execs>>

\* run_code is left, by return or by the pending exception, and execute
\* answers (app.py:368-393)
rc_leave(p, exc) ==
    IF exc # None
    THEN Finish(p, InternalErrorResp(exc))
    ELSE Finish(p, RunResp(frame[p].result, frame[p].session_id))

\* variant of rc_exists in which the clean-up is no finally block: it is
\* skipped when an exception is pending
rc_exists_NoFinally(p) ==
    /\ pc[p] = "rc_exists"
    /\ IF frame[p].exc # None
       THEN rc_leave(p, frame[p].exc)
       ELSE IF frame[p].script_path \in files
       THEN Goto(p, "rc_remove", frame[p])
       ELSE IF frame[p].own_dir /\ frame[p].stateless
       THEN Goto(p, "rc_rmtree", frame[p])
       ELSE rc_leave(p, frame[p].exc)
    /\ UNCHANGED <<sessions, dirs, files, nreq, used, execs, procs>>

\* finally: `if os.path.exists(script_path)`
rc_exists(p) ==
    /\ pc[p] = "rc_exists"
    /\ IF frame[p].script_path \in files
       THEN Goto(p, "rc_remove", frame[p])
       ELSE IF frame[p].own_dir /\ frame[p].stateless
       THEN Goto(p, "rc_rmtree", frame[p])
       ELSE rc_leave(p, frame[p].exc)
    /\ UNCHANGED <<sessions, dirs, files, nreq, used, execs, procs>>

\* finally: os.remove(script_path); it raises when the file has vanished
\* since the test, and the rest of the finally block is then skipped
rc_remove(p) ==
    /\ pc[p] = "rc_remove"
    /\ IF frame[p].script_path \notin files
       THEN rc_leave(p, "FileNotFoundError") /\ UNCHANGED files
       ELSE /\ files' = files \ {frame[p].script_path}
            /\ IF frame[p].own_dir /\ frame[p].stateless
               THEN Goto(p, "rc_rmtree", frame[p])
               ELSE rc_leave(p, frame[p].exc)
    /\ UNCHANGED <<sessions, dirs, nreq, used, execs, procs>>

\* finally: `if own_dir and stateless: shutil.rmtree(work_dir, ...)`
rc_rmtree(p) ==
    /\ pc[p] = "rc_rmtree"
    /\ dirs' = RmTreeDirs(frame[p].work_dir)
    /\ files' = RmTreeFiles(frame[p].work_dir)
    /\ rc_leave(p, frame[p].exc)
    /\ UNCHANGED <<sessions, nreq, used, execs, procs>>

\* ------------------------------------------------------------------------
\* Inputs and specifications
\* ------------------------------------------------------------------------
Ascii(n) == Norm(<<Run("out", 1, n)>>)
Wide(w) == <<Run("out", w, 1)>>

SafeCode == Code(14, TRUE, <<Import("import", <<"os">>)>>, {})
BadImport == Code(17, TRUE, <<Import("import", <<"subprocess">>)>>, {})
BadFrom ==
    Code(30, TRUE, <<Import("from", <<"os">>), Import("from", <<"ctypes", "util">>)>>, {})
BadPattern == Code(9, FALSE, <<>>, {1, 9})
\* import socket.x as y, nested in a function body
BadDotted == Code(40, TRUE, <<Import("import", <<"socket", "x">>)>>, {})
\* import ctypes; from subprocess import run; eval(...)
BadTwice ==
    Code(60, TRUE, <<Import("import", <<"ctypes">>), Import("from", <<"subprocess">>)>>, {9})
\* import importlib_metadata; from . import subprocess
NearMiss ==
    Code(50, TRUE, <<Import("import", <<"importlib_metadata">>), Import("from", <<>>)>>, {})
\* import subprocess, then a line the parser rejects
BadSyntax == Code(25, FALSE, <<Import("import", <<"subprocess">>)>>, {})
\* an expression nested too deeply for the parser, with and without eval(
DeepCode == Faulty(Code(200000, FALSE, <<>>, {}), "RecursionError")
DeepEval == Faulty(Code(200008, FALSE, <<>>, {9}), "RecursionError")
\* os.system(...) in a text with a lone surrogate
SurrogateCode == Faulty(Code(30, FALSE, <<>>, {1}), "UnicodeEncodeError")

\* one step of worker p: requests drawn from the bodies B and the session
\* ids S, children behaving as one of the outcomes O
Step(p, B, O, S) ==
    \/ \E data \in B : RecvExecute(p, data)
    \/ RecvCreate(p, S)
    \/ \E sid \in S : RecvDelete(p, sid)
    \/ RecvList(p)
    \/ gs_check(p)
    \/ gs_mkdtemp(p)
    \/ gs_store(p)
    \/ gs_ret(p)
    \/ cc_read(p)
    \/ cc_write(p)
    \/ cs_check(p)
    \/ cs_get(p)
    \/ cs_exists(p)
    \/ cs_rmtree(p)
    \/ cs_rmdir(p)
    \/ cs_del(p)
    \/ ls_iter(p)
    \/ ls_len(p)
    \/ rc_mkdtemp(p)
    \/ rc_write(p)
    \/ rc_spawn(p)
    \/ \E o \in O : rc_comm(p, o)
    \/ rc_exists(p)
    \/ rc_remove(p)
    \/ rc_rmtree(p)

\* The service under concurrent load: two workers, one session id, small
\* inputs.
Bodies ==
    {Body(EmptyText, c, Absent, sid) : c \in {SafeCode, BadImport}, sid \in {None, "a"}}

Outcomes ==
    {Writing(Outcome(FALSE, Ascii(6), <<>>, 0)), Outcome(TRUE, <<>>, <<>>, -9)}

Next == \E p \in Procs : Step(p, Bodies, Outcomes, {"a"})

Spec == Init /\ [][Next]_vars

\* One worker serving requests one after the other, with the full range of
\* request shapes, timeouts and child outputs.
Timeouts == {Absent, Ms(3000), Ms(120000), Ms(130000), Ms(-1), NotANumber}

SoloBodies ==
    {NoData}
    \cup {Body(EmptyText, c, Absent, None) :
            c \in {EmptyText, SafeCode, BadImport, BadFrom, BadPattern, BadDotted,
                   BadTwice, NearMiss, BadSyntax, DeepCode, DeepEval, SurrogateCode}}
    \cup {Body(SafeCode, c, Absent, None) : c \in {EmptyText, BadImport}}
    \cup {Body(BadImport, SafeCode, Absent, None)}
    \cup {Body(EmptyText, SafeCode, t, sid) : t \in Timeouts, sid \in {None, "", "a"}}
    \cup {Body(EmptyText, BadPattern, t, "a") : t \in {Absent, NotANumber}}

StdoutTexts ==
    {<<>>, Ascii(6), Ascii(MAX_OUTPUT_BYTES), Ascii(MAX_OUTPUT_BYTES + 1),
     Ascii(3 * 1024 * 1024),
     Ascii(MAX_OUTPUT_BYTES - 1) \o Wide(4) \o Ascii(5),
     Ascii(MAX_OUTPUT_BYTES - 2) \o Wide(3)}

StderrTexts ==
    {<<>>, Ascii(6), Ascii(MAX_OUTPUT_BYTES - 2), Ascii(MAX_OUTPUT_BYTES - 45),
     Ascii(MAX_OUTPUT_BYTES), Ascii(3 * 1024 * 1024),
     Ascii(MAX_OUTPUT_BYTES - 1) \o Wide(2)}

ReturnCodes == {0, 1, 124, -9}

SoloOutcomes ==
    {Outcome(FALSE, out, err, 0) : out \in StdoutTexts, err \in StderrTexts}
    \cup {Outcome(FALSE, Ascii(6), err, rc) : err \in {<<>>, Ascii(6)}, rc \in ReturnCodes}
    \cup {Outcome(TRUE, out, err, -9) : out \in StdoutTexts, err \in StderrTexts}
    \cup {Writing(Outcome(FALSE, Ascii(6), <<>>, 0))}

NextSolo == Step("w1", SoloBodies, SoloOutcomes, {"a"})

SpecSolo == Init /\ [][NextSolo]_vars

\* One worker, children that leave descendants behind.  The worker thread
\* keeps running whenever it can take a step (weak fairness); nothing
\* obliges a descendant to end.
LiveBodies ==
    {Body(EmptyText, SafeCode, t, sid) : t \in {Absent, Ms(3000)}, sid \in {None, "a"}}
    \cup {Body(EmptyText, BadImport, Absent, None)}

LiveOutcomes ==
    {Outcome(FALSE, Ascii(6), <<>>, 0), Outcome(TRUE, Ascii(6), <<>>, -9),
     Forking(Outcome(FALSE, Ascii(6), <<>>, 0), "detached"),
     Forking(Outcome(TRUE, Ascii(6), <<>>, -9), "detached"),
     Forking(Outcome(TRUE, Ascii(6), <<>>, -9), "holding")}

WorkerStep == Step("w1", LiveBodies, LiveOutcomes, {"a"}) \/ rc_drain("w1")

NextLive == WorkerStep \/ \E d \in procs : ProcExit(d)

SpecLive == Init /\ [][NextLive]_vars /\ WF_vars(WorkerStep)

\* ------------------------------------------------------------------------
\* Properties
\* ------------------------------------------------------------------------
\* the handler of worker p is inside run_code
InRunCode(p) ==
    pc[p] \in {"rc_mkdtemp", "rc_write", "rc_spawn", "rc_comm", "rc_drain",
               "rc_exists", "rc_remove", "rc_rmtree"}

\* run_code of worker p has its result and is about to return it
Returning(p) ==
    pc[p] \in {"rc_exists", "rc_remove", "rc_rmtree"} /\ frame[p].exc = None

Min2(a, b) == IF a < b THEN a ELSE b

\* C1: an /execute handler is past its screening (resolving a session or
\* inside run_code) only with code that security_check judges safe, and
\* the step that answers a request as blocked changes neither the session
\* store nor the disk.
C1_BlockedNeverExecutes ==
    [][ /\ \A p \in Procs :
             frame'[p].kind = "execute" => security_check(frame'[p].code)[1]
        /\ (\E p \in Procs : resp'[p].blocked /\ resp'[p] # resp[p])
             => UNCHANGED <<sessions, dirs, files, used, execs, procs>> ]_vars

\* a request with a blocklisted import was answered as blocked, and there
\* is neither a directory nor a session
C1_Witness ==
    \E p \in Procs :
       /\ resp[p].route = "execute" /\ resp[p].blocked
       /\ resp[p].reason.module = <<"subprocess">>
       /\ dirs = {} /\ DOMAIN sessions = {}

C3_TimeoutClamped ==
    \A p \in Procs :
       InRunCode(p) =>
          /\ frame[p].timeout_sec <= 120 * 1000
          /\ frame[p].run_timeout.given =>
                frame[p].timeout_sec = Min2(frame[p].run_timeout.ms, 120 * 1000)
          /\ ~frame[p].run_timeout.given => frame[p].timeout_sec = 30 * 1000

\* a request asking for 130 s is run with 120 s
C3_Witness ==
    \E p \in Procs :
       /\ InRunCode(p)
       /\ frame[p].run_timeout = Ms(130000)
       /\ frame[p].timeout_sec = 120000

\* C4: the executions carrying one session id, with no destroy of the id
\* between them, all run in one directory; two stateless executions never
\* run in the same directory.
C4_SameSessionSameDir ==
    /\ \A sid \in SessionIds : Cardinality(used[sid]) <= 1
    /\ \A p, q \in Procs :
          (p # q /\ InRunCode(p) /\ InRunCode(q) /\ frame[p].stateless
             /\ frame[q].stateless /\ frame[p].work_dir # NoDir)
          => frame[p].work_dir # frame[q].work_dir

\* C5: concurrent get_or_create_session calls on an unknown id create one
\* directory: no two callers hold a directory they made for the same id,
\* and every session directory on disk is the work_dir of a record in the
\* store or is about to be stored by the caller that made it.
C5_OneDirPerId ==
    /\ \A p, q \in Procs :
          (p # q /\ pc[p] = "gs_store" /\ pc[q] = "gs_store")
          => frame[p].session_id # frame[q].session_id
    /\ \A d \in dirs :
          d[1] = "session" =>
             \/ \E sid \in DOMAIN sessions : sessions[sid].work_dir = d
             \/ \E p \in Procs : pc[p] = "gs_store" /\ frame[p].work_dir = d

\* the listing GET /sessions gives of the store as it is
Listing == {View(sid) : sid \in DOMAIN sessions}

\* C6: when cleanup_session has deleted the record of a live session and
\* DELETE /session/<id> acknowledges, the directory of that session is not
\* on disk and the id is neither in the store nor in the listing.
C6_DestroyRemoves ==
    [][ \A p \in Procs :
          (pc[p] = "cs_del" /\ pc'[p] = "idle" /\ resp'[p].status = 200)
          => /\ frame[p].work_dir \notin dirs'
             /\ frame[p].session_id \notin DOMAIN sessions'
             /\ \A v \in Listing' : v.id # frame[p].session_id ]_vars

\* POST /session created a session, DELETE /session/<id> of that id was
\* acknowledged, and neither the record nor a directory is left
C6_Witness ==
    \E p, q \in Procs :
       /\ resp[q].route = "create_session" /\ resp[q].status = 201
       /\ resp[p].route = "delete_session" /\ resp[p].status = 200
       /\ resp[p].session_id = resp[q].session_id
       /\ resp[p].session_id \notin DOMAIN sessions
       /\ dirs = {}

\* C7: DELETE /session/<id> always answers with the 'deleted'
\* acknowledgement, never with an error.
C7_DestroyAlwaysAcks ==
    \A p \in Procs :
       resp[p].route = "delete_session" => resp[p].status = 200 /\ resp[p].error = ""

\* C8: the result of an execution that timed out has exit code 124 and its
\* stderr holds the whole timeout marker.
C8_TimeoutReported ==
    \A p \in Procs :
       (Returning(p) /\ frame[p].outcome.timed_out) =>
          /\ frame[p].result.exit_code = 124
          /\ CharsTagged(frame[p].result.stderr, "timeout_marker")
                = CharsTagged(TimeoutMarker(frame[p].timeout_ms), "timeout_marker")

\* C9: a result has exit code 124 if and only if the execution timed out.
C9_SentinelDistinct ==
    \A p \in Procs :
       Returning(p) => (frame[p].result.exit_code = 124 <=> frame[p].outcome.timed_out)

\* C10: stdout and stderr of a result are each at most the 2 MiB cap plus
\* the truncation marker, in encoded bytes.
C10_OutputBounded ==
    \A p \in Procs :
       Returning(p) =>
          /\ ByteLen(frame[p].result.stdout) <= 2 * 1024 * 1024 + ByteLen(TRUNCATION_MARKER)
          /\ ByteLen(frame[p].result.stderr) <= 2 * 1024 * 1024 + ByteLen(TRUNCATION_MARKER)

\* ------------------------------------------------------------------------
\* Properties of the output caps and of the screening
\* ------------------------------------------------------------------------
\* s ends with the truncation marker
EndsWithMarker(s) ==
    /\ Len(s) >= Len(TRUNCATION_MARKER)
    /\ SubSeq(s, Len(s) - Len(TRUNCATION_MARKER) + 1, Len(s)) = TRUNCATION_MARKER

\* the stream raw, as run_code holds it before the caps, came back as
\* ret: cut and closed by the truncation marker when raw exceeds the cap,
\* unmodified otherwise
CappedAs(raw, ret) ==
    IF ByteLen(raw) > 2 * 1024 * 1024
    THEN /\ EndsWithMarker(ret)
         /\ ByteLen(ret) < ByteLen(raw) + ByteLen(TRUNCATION_MARKER)
    ELSE ret = raw

\* C11: each stream of a result is capped on its own: a stream over the
\* cap comes back cut and ending with the truncation marker, a stream
\* within the cap comes back unmodified and without the marker.
C11_CappedIndependently ==
    \A p \in Procs :
       Returning(p) =>
          /\ CappedAs(frame[p].outcome.stdout, frame[p].result.stdout)
          /\ CappedAs(OnTimeout(frame[p].outcome, frame[p].timeout_ms).stderr,
                      frame[p].result.stderr)

\* worker p has answered an /execute request whose handler reached the
\* call of security_check (payload, code and run_timeout were accepted)
Screened(p) ==
    /\ resp[p].route = "execute"
    /\ resp[p].request.json
    /\ ExtractCode(resp[p].request).chars > 0
    /\ RequestedTimeout(resp[p].request).number

\* the code of the request worker p has answered
AnsweredCode(p) == ExtractCode(resp[p].request)

\* the dotted names of the import statements of code whose first
\* component is blocklisted
BlockedImports(code) ==
    {code.imports[i].module : i \in {j \in 1..Len(code.imports) :
        /\ code.imports[j].module # <<>>
        /\ Head(code.imports[j].module) \in BLOCKED_MODULES}}

\* C12: for parseable code holding an import statement, in any form, of a
\* module whose top-level name is blocklisted, security_check returns
\* unsafe with a reason naming such an imported module, and the request
\* is answered as blocked with that reason.
C12_BlockedImportRejected ==
    \A p \in Procs :
       (Screened(p) /\ AnsweredCode(p).parses /\ BlockedImports(AnsweredCode(p)) # {})
       => /\ security_check(AnsweredCode(p))[3] = None
          /\ ~security_check(AnsweredCode(p))[1]
          /\ security_check(AnsweredCode(p))[2].kind \in {"import", "from"}
          /\ security_check(AnsweredCode(p))[2].module \in BlockedImports(AnsweredCode(p))
          /\ resp[p].blocked
          /\ resp[p].reason = security_check(AnsweredCode(p))[2]

\* `from os import ...; from ctypes.util import ...` was answered as
\* blocked, the reason naming ctypes.util
C12_Witness ==
    \E p \in Procs :
       /\ Screened(p) /\ AnsweredCode(p) = BadFrom
       /\ resp[p].blocked /\ resp[p].reason.kind = "from"
       /\ resp[p].reason.module = <<"ctypes", "util">>

\* C13: for code, parseable or not, that a blocked pattern matches,
\* security_check returns unsafe and the request is answered as blocked.
C13_PatternRejected ==
    \A p \in Procs :
       (Screened(p) /\ AnsweredCode(p).patterns # {})
       => /\ security_check(AnsweredCode(p))[3] = None
          /\ ~security_check(AnsweredCode(p))[1]
          /\ resp[p].blocked

\* exceptions of ast.parse that security_check does not catch
ParseFaults == {"RecursionError", "MemoryError", "UnicodeEncodeError"}

\* C14: on code that does not parse security_check returns unsafe exactly
\* when a blocked pattern matches, and code with no blocklisted import
\* and no pattern match is returned safe with an empty reason and is not
\* stopped by the screening.
C14_UnparsableOnlyPatterns ==
    \A p \in Procs :
       Screened(p) =>
          /\ ~AnsweredCode(p).parses =>
                /\ security_check(AnsweredCode(p))[3] = None
                /\ ~security_check(AnsweredCode(p))[1] <=> AnsweredCode(p).patterns # {}
                /\ resp[p].blocked <=> AnsweredCode(p).patterns # {}
          /\ ( /\ AnsweredCode(p).patterns = {}
               /\ AnsweredCode(p).parses => BlockedImports(AnsweredCode(p)) = {} )
             => /\ security_check(AnsweredCode(p)) = <<TRUE, NoReason, None>>
                /\ ~resp[p].blocked
                /\ resp[p].error \notin ParseFaults

\* C15: every unsafe verdict is answered with status 200, blocked = true,
\* the verdict's non-empty reason, empty stdout and a nonzero exit code;
\* a screened request is answered with status 200 unless an exception
\* was raised, and then with status 500.
C15_RejectionIsSuccess ==
    \A p \in Procs :
       Screened(p) =>
          /\ ( /\ security_check(AnsweredCode(p))[3] = None
               /\ ~security_check(AnsweredCode(p))[1] )
             => /\ resp[p].status = 200
                /\ resp[p].blocked
                /\ resp[p].reason = security_check(AnsweredCode(p))[2]
                /\ resp[p].reason # NoReason
                /\ resp[p].stdout = <<>>
                /\ resp[p].code # 0
          /\ resp[p].status \in {200, 500}
          /\ resp[p].status = 500 <=> resp[p].error # ""

\* code that a blocked pattern matches was answered 200 and blocked, and
\* nothing was created
C15_Witness ==
    \E p \in Procs :
       /\ Screened(p) /\ AnsweredCode(p) = BadPattern
       /\ resp[p].status = 200 /\ resp[p].blocked
       /\ resp[p].reason.kind = "pattern" /\ resp[p].code = 1
       /\ dirs = {}

\* C16: a fault raised in the /execute handler is answered with the
\* internal-error envelope: status 500, empty stdout, and a content that
\* carries nothing of the exception.
C16_NoDiagnosticLeak ==
    \A p \in Procs :
       (resp[p].route = "execute" /\ resp[p].error # "" /\ resp[p].status # 400)
       => /\ resp[p].status = 500
          /\ resp[p].stdout = <<>>
          /\ CharsTagged(resp[p].stderr, "exception_text") = 0

\* C17: a stateless execution past its mkdtemp holds a directory no other
\* handler holds, the files in that directory are its own script and the
\* file its own child wrote, and its result is made of the output of the
\* child it spawned.
C17_StatelessIsolated ==
    \A p \in Procs :
       (InRunCode(p) /\ frame[p].stateless /\ frame[p].work_dir # NoDir) =>
          /\ \A q \in Procs \ {p} : frame[q].work_dir # frame[p].work_dir
          /\ \A f \in files : f[1] = frame[p].work_dir => f[2][2] = frame[p].rid
          /\ \A q \in Procs \ {p} :
                frame[q].kind = "execute" =>
                   /\ ScriptPath(frame[p].work_dir, frame[q].rid) \notin files
                   /\ UserFile(frame[p].work_dir, frame[q].rid) \notin files
          /\ Returning(p) =>
                frame[p].result = RunResult(frame[p].outcome, frame[p].timeout_ms)

\* two stateless executions are in run_code at once, the child of each
\* has written its file
C17_Witness ==
    \E p, q \in Procs :
       /\ p # q
       /\ pc[p] = "rc_exists" /\ pc[q] = "rc_exists"
       /\ frame[p].stateless /\ frame[q].stateless
       /\ UserFile(frame[p].work_dir, frame[p].rid) \in files
       /\ UserFile(frame[q].work_dir, frame[q].rid) \in files

\* C18: a file an execution wrote into the directory of a session stays
\* on disk, and so does the directory, until cleanup_session removes the
\* tree; and an execution of the session, with no destroy since it
\* arrived, finds in its directory every file the session's executions
\* had left when it arrived.
C18_SessionFilesPersist ==
    [][ /\ \A f \in files :
             (f[1][1] = "session" /\ f[2][1] = "data" /\ f \notin files')
             => \E p \in Procs : pc[p] = "cs_rmtree" /\ frame[p].work_dir = f[1]
        /\ \A d \in dirs :
             (d[1] = "session" /\ d \notin dirs')
             => \E p \in Procs : pc[p] = "cs_rmdir" /\ frame[p].work_dir = d
        /\ \A p \in Procs :
             (pc'[p] = "rc_comm" /\ ~frame'[p].stateless /\ ~frame'[p].stale)
             => \A f \in frame'[p].before : <<frame'[p].work_dir, f[2]>> \in files'
      ]_vars

\* the handlers of worker requests that are between the dispatch of an
\* execution against sid and the update of its cell_count
Counting(sid) ==
    {p \in Procs : /\ frame[p].kind = "execute" /\ frame[p].session_id = sid
                   /\ pc[p] \in {"gs_check", "gs_mkdtemp", "gs_store", "gs_ret",
                                  "cc_read", "cc_write"}}

\* C19: the cell_count of a session in the store is the number of
\* executions dispatched with its id since the id was created, whenever
\* no such execution is between its dispatch and its update of the
\* counter.
C19_CellCountCounts ==
    \A sid \in DOMAIN sessions :
       Counting(sid) = {} => sessions[sid].cell_count = execs[sid]

\* C20: GET /sessions succeeds, with one entry per session id and a count
\* that is the number of its entries.
C20_ListConsistent ==
    \A p \in Procs :
       resp[p].route = "list_sessions" =>
          /\ resp[p].status = 200
          /\ resp[p].count = Cardinality(resp[p].sessions)
          /\ \A v, w \in resp[p].sessions : v.id = w.id => v = w

\* ------------------------------------------------------------------------
\* Properties of process termination
\* ------------------------------------------------------------------------
\* C21: when run_code has the result of an execution that timed out, no
\* process started by the executed code is running.
C21_TimeoutKillsAll ==
    \A p \in Procs :
       (Returning(p) /\ frame[p].outcome.timed_out)
       => \A d \in procs : d.rid # frame[p].rid

\* C22: every request that has passed screening and reached the wait on
\* its child is eventually answered.
C22_AlwaysReturns ==
    \A p \in Procs : (pc[p] = "rc_comm") ~> (pc[p] = "idle")

\* C23: an execution against a session that was in flight, holding the
\* session's record, when DELETE /session/<id> removed that very record
\* ends with an answer of /execute and without its script file, and when
\* it ends (the destroy has completed before) no record of the store names
\* the session's working directory and that directory is not on disk.
C23_DestroyDuringExecution ==
    [][ \A p \in Procs :
          (frame[p].kind = "execute" /\ frame[p].destroyed /\ pc'[p] = "idle")
          => /\ resp'[p].route = "execute"
             /\ frame[p].script_path \notin files'
             /\ \A sid \in DOMAIN sessions' :
                   sessions'[sid].work_dir # frame[p].session
             /\ frame[p].session \notin dirs' ]_vars

\* run_code of worker p runs for a session and has chosen its script path
SessionRun(p) ==
    /\ frame[p].kind = "execute" /\ ~frame[p].stateless
    /\ InRunCode(p) /\ frame[p].script_path # <<>>

\* C24: two executions in flight against the same session id never hold
\* the same script path, and the script file of one of them leaves the
\* disk only by that execution's own os.remove or by a destroy's rmtree,
\* never by a step of the other execution.
C24_ScriptPathsDistinct ==
    [][ /\ \A p, q \in Procs :
             (p # q /\ SessionRun(p)' /\ SessionRun(q)'
                    /\ frame'[p].session_id = frame'[q].session_id)
             => frame'[p].script_path # frame'[q].script_path
        /\ \A p \in Procs :
             (SessionRun(p) /\ frame[p].script_path \in files
                            /\ frame[p].script_path \notin files')
             => \/ pc[p] = "rc_remove" /\ pc'[p] # "rc_remove"
                \/ \E q \in Procs : pc[q] = "cs_rmtree" /\ pc'[q] = "cs_rmdir"
      ]_vars

\* two executions of one session, in the same directory, both have their
\* script on disk and their child processes running
C24_Witness ==
    \E p, q \in Procs :
       /\ p # q
       /\ SessionRun(p) /\ SessionRun(q)
       /\ frame[p].session_id = frame[q].session_id
       /\ frame[p].work_dir = frame[q].work_dir
       /\ pc[p] = "rc_comm" /\ pc[q] = "rc_comm"
       /\ frame[p].script_path \in files /\ frame[q].script_path \in files

\* C25: when run_code returns the result of a child whose communicate()
\* came back before the deadline, the exit code of the result and the code
\* of the answer are the child's own return code, zero, positive or
\* negative, and the answer has status 200 as for a zero exit.
C25_ExitCodeVerbatim ==
    [][ \A p \in Procs :
          (Returning(p) /\ ~frame[p].outcome.timed_out /\ pc'[p] = "idle")
          => /\ frame[p].result.exit_code = frame[p].outcome.returncode
             /\ resp'[p].route = "execute"
             /\ resp'[p].status = 200
             /\ resp'[p].code = frame[p].outcome.returncode ]_vars

\* C26: the reason of a blocked answer is that of the first match: for
\* parseable code with a blocklisted import it is the reason of the first
\* such import of the walk, whatever patterns match as well; otherwise it
\* names the matching pattern that comes first in BLOCKED_PATTERNS.
C26_FirstMatchWins ==
    \A p \in Procs :
       (Screened(p) /\ resp[p].blocked) =>
          LET c == AnsweredCode(p)
              hits == {i \in 1..Len(c.imports) : c.imports[i].module \in BlockedImports(c)}
          IN  IF c.parses /\ hits # {}
              THEN LET i == CHOOSE i \in hits : \A j \in hits : i <= j
                   IN  resp[p].reason = Reason(c.imports[i].form, c.imports[i].module, 0)
              ELSE /\ c.patterns # {}
                   /\ resp[p].reason.kind = "pattern"
                   /\ resp[p].reason.pattern \in c.patterns
                   /\ \A k \in c.patterns : resp[p].reason.pattern <= k

\* a request whose parseable code has a blocklisted import and also
\* matches a blocked pattern was answered as blocked with the import's
\* reason
C26_Witness ==
    \E p \in Procs :
       /\ pc[p] = "idle" /\ Screened(p) /\ resp[p].blocked
       /\ AnsweredCode(p).parses
       /\ BlockedImports(AnsweredCode(p)) # {}
       /\ AnsweredCode(p).patterns # {}
       /\ resp[p].reason.kind # "pattern"

\* C27: in every state each session id of the store maps to a working
\* directory that exists on disk, no two ids of the store map to the same
\* directory, and no directory of a stored session is the transient
\* directory of a stateless run.
C27_StoreDirectories ==
    /\ \A sid \in DOMAIN sessions : sessions[sid].work_dir \in dirs
    /\ \A s, t \in DOMAIN sessions :
          s # t => sessions[s].work_dir # sessions[t].work_dir
    /\ \A sid \in DOMAIN sessions, p \in Procs :
          (InRunCode(p) /\ frame[p].stateless)
          => frame[p].work_dir # sessions[sid].work_dir

\* C28: a session of the store leaves it only by the `del` of a
\* cleanup_session of its own id, and while it stays its work_dir and
\* created_at do not change, whatever executions, listings, creations and
\* destroys take their steps.
C28_SessionFrame ==
    [][ \A sid \in DOMAIN sessions :
          IF sid \in DOMAIN sessions'
          THEN /\ sessions'[sid].work_dir = sessions[sid].work_dir
               /\ sessions'[sid].created_at = sessions[sid].created_at
          ELSE \E p \in Procs :
                  /\ pc[p] = "cs_del" /\ pc'[p] = "idle"
                  /\ frame[p].kind = "delete_session"
                  /\ frame[p].session_id = sid ]_vars

\* the /execute request worker p handles, or answers at once, in a step
HandledRequest(p) ==
    IF frame[p].kind = "execute" THEN frame[p].data
    ELSE IF frame'[p].kind = "execute" THEN frame'[p].data
    ELSE resp'[p].request

\* the step is one of worker p on an /execute request
ExecuteStep(p) ==
    /\ pc'[p] # pc[p] \/ frame'[p] # frame[p] \/ resp'[p] # resp[p]
    /\ \/ frame[p].kind = "execute"
       \/ frame'[p].kind = "execute"
       \/ pc[p] = "idle" /\ nreq' = nreq + 1 /\ resp'[p].route = "execute"

\* requests without a body or without code, requests that screening
\* blocks, and requests that carry no session id
NoSessionRequest(data) ==
    \/ ~data.json
    \/ ExtractCode(data).chars = 0
    \/ /\ security_check(ExtractCode(data))[3] = None
       /\ ~security_check(ExtractCode(data))[1]
    \/ data.session_id \in {None, ""}

\* C29: no step of the handling of an /execute request that has no body
\* or no code, that screening blocks, or that carries no session id
\* changes the session store (no record added, removed or counted) or
\* creates or removes a session directory, also when the blocked request
\* names a session id the store does not hold.
C29_StoreUntouched ==
    [][ \A p \in Procs :
          (ExecuteStep(p) /\ NoSessionRequest(HandledRequest(p)))
          => /\ sessions' = sessions
             /\ {d \in dirs' : d[1] = "session"} = {d \in dirs : d[1] = "session"}
      ]_vars

\* a request whose code screening blocks and that names a session id the
\* store does not hold has been answered as blocked, the store still
\* without that id
C29_Witness ==
    \E p \in Procs :
       /\ pc[p] = "idle" /\ resp[p].route = "execute" /\ resp[p].blocked
       /\ Truthy(resp[p].request.session_id)
       /\ resp[p].request.session_id \notin DOMAIN sessions

\* C30: when an execution that found its session id unknown to the store
\* (never used, or destroyed earlier) has dispatched and calls run_code,
\* the store holds a session of the id with cell_count 1, and the
\* execution runs in the directory its own get_or_create_session created,
\* which is on disk and empty: it holds no file of an earlier session of
\* the id nor of anybody else.
C30_LazyCreation ==
    [][ \A p \in Procs :
          (frame[p].kind = "execute" /\ frame[p].lazy
             /\ pc[p] = "cc_write" /\ pc'[p] = "rc_write")
          => /\ frame[p].session_id \in DOMAIN sessions'
             /\ sessions'[frame[p].session_id].cell_count = 1
             /\ frame'[p].work_dir = MkDTemp("session", frame[p].rid)
             /\ sessions'[frame[p].session_id].work_dir = frame'[p].work_dir
             /\ frame'[p].work_dir \in dirs'
             /\ \A f \in files' : f[1] # frame'[p].work_dir ]_vars

====
